---- MODULE Spec2Model ----
(***************************************************************************)
(* Model of the notification sending service:                              *)
(*   notifications/services.py  NotificationService (dispatch + adapters)  *)
(*   notifications/views.py     NotificationViewSet.send, UserContacts     *)
(*   notifications/models.py    Notification, UserContacts                 *)
(* One request is served at a time; the steps of the send handler are      *)
(* sequenced by pc.                                                        *)
(***************************************************************************)
EXTENDS Integers, Sequences, FiniteSets, TLC

\* ------------------------------------------------------------------ bounds
\* Number of send requests served in one behaviour.
MaxRequests == 2

\* ------------------------------------------------------------ Python values
\* Return values of the adapters, tagged: True, False, None, or the parsed
\* JSON payload of a response (services.py:153).
PyTrue == "True"
PyFalse == "False"
PyNone == "None"
PyJson == "json"

\* No exception / no text.
NoExc == ""

\* JSON documents a server may answer with.  A body is what response.json()
\* has to parse: an object with its keys, an array, or text that is no JSON.
NoBody == [parses |-> FALSE, type |-> "none", keys |-> {}, message |-> ""]
BodyInvalidKey == [parses |-> TRUE, type |-> "dict", keys |-> {"message"}, message |-> "invalid key"]
BodyEmptyObject == [parses |-> TRUE, type |-> "dict", keys |-> {}, message |-> ""]
BodyOk == [parses |-> TRUE, type |-> "dict", keys |-> {"ok", "result"}, message |-> ""]
BodyEmptyList == [parses |-> TRUE, type |-> "list", keys |-> {}, message |-> ""]
BodyNotJson == [parses |-> FALSE, type |-> "text", keys |-> {}, message |-> ""]

\* Python truthiness of a string setting / error text: "" and None are falsy.
TruthyStr(s) == s # "" /\ s # PyNone

\* Python truthiness of an adapter's return value: True is truthy, False and
\* None are falsy, a parsed JSON container is truthy iff it is not empty.
Truthy(ret, payload) ==
    \/ ret = PyTrue
    \/ ret = PyJson /\ payload.keys # {}

\* response.json(): JSONDecodeError when the body is no JSON.
ResponseJson(resp) ==
    IF resp.body.parses
    THEN [exc |-> NoExc, value |-> resp.body]
    ELSE [exc |-> "JSONDecodeError", value |-> NoBody]

\* value.get("message", default): AttributeError when the value is no dict.
DictGetMessage(value, default) ==
    IF value.type # "dict" THEN [exc |-> "AttributeError", value |-> ""]
    ELSE IF "message" \in value.keys THEN [exc |-> NoExc, value |-> value.message]
    ELSE [exc |-> NoExc, value |-> default]

\* response.raise_for_status(): HTTPError for 4xx and 5xx.
RaiseForStatus(resp) ==
    IF resp.status >= 400 /\ resp.status < 600 THEN "HTTPError" ELSE NoExc

\* ------------------------------------------------------------ environment
Users == {"u1", "u2"}
NoContacts == [email |-> "", phone |-> "", telegram_chat_id |-> ""]
Emails == {"", "a@example.org"}
Phones == {"", "+79991234567"}
ChatIds == {"", "42"}
Subjects == {"", "hello"}
Messages == {"", "text"}

\* Outcomes of django.core.mail.send_mail: returns, or raises.
MailOutcomes == {"ok", "smtp down"}

\* Outcomes of requests.post to the Tele2 API: an exception or a response.
NoResponseIn == [exc |-> NoExc, status |-> 0, body |-> NoBody]
SmsPosts ==
    {[exc |-> "timeout", status |-> 0, body |-> NoBody],
     [exc |-> NoExc, status |-> 200, body |-> BodyEmptyObject]}
    \cup [exc : {NoExc}, status : {403, 500},
          body : {BodyInvalidKey, BodyEmptyObject, BodyEmptyList, BodyNotJson}]

\* Outcomes of requests.post to the Telegram bot API.
TelegramPosts ==
    {[exc |-> "connection error", status |-> 0, body |-> NoBody]}
    \cup [exc : {NoExc}, status : {200, 304, 403},
          body : {BodyOk, BodyEmptyObject, BodyNotJson}]

VARIABLES
    settings,       \* config.settings: EMAIL_HOST_USER, TELE2_API_KEY, TELEGRAM_BOT_TOKEN
    contacts,       \* UserContacts table: user -> profile (NoContacts when absent)
    notifications,  \* Notification table: sequence of rows
    pc,             \* position of the send handler
    request,        \* the request being served
    index,          \* position of the dispatch loop in channels
    last_error,     \* send_notification's last_error
    trace,          \* adapter calls of the current dispatch, in order
    outcome,        \* how NotificationService(...).send_notification(...) ended
    response,       \* the HTTP response of the send endpoint
    served          \* number of send requests started

vars == <<settings, contacts, notifications, pc, request, index, last_error,
          trace, outcome, response, served>>

\* ------------------------------------------------------------ adapters
\* What one adapter call did: the exception that escaped it (NoExc when it
\* returned), its return value, the lines it printed and the transport calls
\* it made.  Each adapter wraps its whole body in try/except Exception and
\* only prints in the handler, so no adapter below lets an exception escape.
Result(exc, ret, payload, log, io) ==
    [exc |-> exc, ret |-> ret, payload |-> payload, log |-> log, io |-> io]

\* services.py:75-95.  send_mail is always called; an exception is printed
\* and swallowed, the method then falls off its end and returns None.
_send_email(profile, subject, message, mail) ==
    LET io == <<[op |-> "send_mail", sender |-> settings.EMAIL_HOST_USER,
                 recipient |-> profile.email, text |-> <<subject, message>>,
                 timeout |-> 0]>>
    IN  IF mail = "ok"
        THEN Result(NoExc, PyTrue, NoBody, <<>>, io)
        ELSE Result(NoExc, PyNone, NoBody, <<<<"email error", mail>>>>, io)

\* Variants of _send_sms with a plausible slip: the missing key raised instead
\* of returned; the request posted before the key is looked at.
_send_sms_raises(profile, message, post) ==
    IF ~TruthyStr(settings.TELE2_API_KEY)
    THEN Result("TELE2_API_KEY is not set", PyNone, NoBody, <<>>, <<>>)
    ELSE Result(NoExc, IF post.exc = NoExc /\ post.status = 200 THEN PyTrue ELSE PyNone,
                NoBody, <<>>,
                <<[op |-> "post Tele2", sender |-> settings.TELE2_API_KEY,
                   recipient |-> profile.phone, text |-> message, timeout |-> 10]>>)

_send_sms_posts_first(profile, message, post) ==
    Result(NoExc,
           IF ~TruthyStr(settings.TELE2_API_KEY) THEN PyFalse
           ELSE IF post.exc = NoExc /\ post.status = 200 THEN PyTrue ELSE PyNone,
           NoBody, <<>>,
           <<[op |-> "post Tele2", sender |-> settings.TELE2_API_KEY,
              recipient |-> profile.phone, text |-> message, timeout |-> 10]>>)

\* services.py:97-130.
_send_sms(profile, message, post) ==
    IF ~TruthyStr(settings.TELE2_API_KEY)
    THEN Result(NoExc, PyFalse, NoBody, <<>>, <<>>)
    ELSE
      LET io == <<[op |-> "post Tele2", sender |-> settings.TELE2_API_KEY,
                   recipient |-> profile.phone, text |-> message,
                   timeout |-> 10]>>
          json == ResponseJson(post)
          msg == DictGetMessage(json.value, "Unknown error")
      IN  IF post.exc # NoExc
          THEN Result(NoExc, PyNone, NoBody, <<<<"sms error", post.exc>>>>, io)
          ELSE IF post.status = 200
          THEN Result(NoExc, PyTrue, NoBody, <<>>, io)
          ELSE IF json.exc # NoExc
          THEN Result(NoExc, PyNone, NoBody, <<<<"sms error", json.exc>>>>, io)
          ELSE IF msg.exc # NoExc
          THEN Result(NoExc, PyNone, NoBody, <<<<"sms error", msg.exc>>>>, io)
          ELSE Result(NoExc, PyNone, NoBody, <<<<"Tele2 API error", msg.value>>>>, io)

\* services.py:132-155.  The return value on success is response.json().
_send_telegram(profile, message, post) ==
    IF ~TruthyStr(settings.TELEGRAM_BOT_TOKEN)
    THEN Result(NoExc, PyFalse, NoBody, <<>>, <<>>)
    ELSE
      LET io == <<[op |-> "post Telegram", sender |-> settings.TELEGRAM_BOT_TOKEN,
                   recipient |-> profile.telegram_chat_id, text |-> message,
                   timeout |-> 0]>>
          json == ResponseJson(post)
      IN  IF post.exc # NoExc
          THEN Result(NoExc, PyNone, NoBody, <<<<"telegram error", post.exc>>>>, io)
          ELSE IF RaiseForStatus(post) # NoExc
          THEN Result(NoExc, PyNone, NoBody,
                      <<<<"telegram error", RaiseForStatus(post)>>>>, io)
          ELSE IF json.exc # NoExc
          THEN Result(NoExc, PyNone, NoBody, <<<<"telegram error", json.exc>>>>, io)
          ELSE Result(NoExc, PyJson, json.value, <<>>, io)

\* ------------------------------------------------------------ dispatcher
\* Variant of channels: SMS put before Email.
channels_sms_first == <<"sms", "email", "telegram">>

\* services.py:53-57: the channels in the order they are tried.
channels == <<"email", "sms", "telegram">>

\* The inputs the environment can give the transport of channel c.
Inputs(c) ==
    CASE c = "email" -> [mail : MailOutcomes, post : {NoResponseIn}]
      [] c = "sms" -> [mail : {"ok"}, post : SmsPosts]
      [] OTHER -> [mail : {"ok"}, post : TelegramPosts]

\* services.py:54-56, 63: method(**params) of channel c.
CallChannel(c, profile, subject, message, in) ==
    CASE c = "email" -> _send_email(profile, subject, message, in.mail)
      [] c = "sms" -> _send_sms(profile, <<subject, "\n", message>>, in.post)
      [] OTHER -> _send_telegram(profile, <<"*", subject, "*\n", message>>, in.post)

\* How the service call ended.
NoOutcome == [kind |-> "none", value |-> FALSE, reason |-> ""]
Returned(v) == [kind |-> "returned", value |-> v, reason |-> ""]
Raised(kind, reason) == [kind |-> kind, value |-> FALSE, reason |-> reason]

\* Variants of LoopStep: a channel that does not deliver ends the call; a
\* channel that does not deliver is tried again.
LoopStep_stops(i, le, r) ==
    IF Truthy(r.ret, r.payload)
    THEN [index |-> 0, last_error |-> le, outcome |-> Returned(TRUE)]
    ELSE [index |-> 0, last_error |-> le, outcome |-> Returned(FALSE)]

LoopStep_retries(i, le, r) ==
    IF Truthy(r.ret, r.payload)
    THEN [index |-> 0, last_error |-> le, outcome |-> Returned(TRUE)]
    ELSE [index |-> i, last_error |-> le, outcome |-> NoOutcome]

\* services.py:61-67: one iteration of the loop on result r of channel i.
\* Gives the loop's next position (0: the call has returned), last_error and
\* the outcome so far.
LoopStep(i, le, r) ==
    IF r.exc # NoExc
    THEN [index |-> i + 1, last_error |-> r.exc, outcome |-> NoOutcome]
    ELSE IF Truthy(r.ret, r.payload)
    THEN [index |-> 0, last_error |-> le, outcome |-> Returned(TRUE)]
    ELSE [index |-> i + 1, last_error |-> le, outcome |-> NoOutcome]

\* services.py:69-73: after the loop.
AfterLoop(le) ==
    IF TruthyStr(le) THEN Raised("Exception", le) ELSE Returned(FALSE)

\* ------------------------------------------------------------ persistence
\* models.py:116-137: UserContacts.clean, TRUE when no ValidationError.
clean(profile) ==
    /\ TruthyStr(profile.email)
    /\ TruthyStr(profile.phone)
    /\ TruthyStr(profile.telegram_chat_id)

\* models.py:9-42: a new Notification row; is_sent defaults to False.
NewNotification(user, subject, message) ==
    [user |-> user, subject |-> subject, message |-> message, is_sent |-> FALSE]

\* ------------------------------------------------------------ send endpoint
NoRequest == [user |-> "", subject |-> "", message |-> "", row |-> 0]
NoResponse == [status |-> 0, error |-> <<>>]

\* Variant of ServiceInit: the missing profile is not noticed.
ServiceInit_silent(user) == NoExc

\* services.py:21-34: NotificationService.__init__, the exception it raises
\* (NoExc when the contacts are resolved).
ServiceInit(user) ==
    IF contacts[user] = NoContacts THEN "ValidationError" ELSE NoExc

\* views.py:70-88: the response for the way the service call ended.
\* str(e) of the dispatcher's exception holds last_error (services.py:70-72).
SendResponse(o) ==
    CASE o.kind = "returned" /\ o.value -> [status |-> 200, error |-> <<>>]
      [] o.kind = "returned" /\ ~o.value ->
            [status |-> 500, error |-> <<"not sent by any channel">>]
      [] o.kind = "ValidationError" -> [status |-> 400, error |-> <<o.reason>>]
      [] OTHER -> [status |-> 500, error |-> <<"all channels failed", o.reason>>]

\* Variant of SaveIsSent: the flag is set once the handler gets to its end,
\* whatever the service call gave.
SaveIsSent_always(rows, row, o) ==
    [rows EXCEPT ![row].is_sent = TRUE]

\* views.py:70-71: is_sent is saved only when send_notification returned.
SaveIsSent(rows, row, o) ==
    IF o.kind = "returned"
    THEN [rows EXCEPT ![row].is_sent = o.value]
    ELSE rows

Init ==
    /\ settings \in [EMAIL_HOST_USER : {"", "noreply@example.org"},
                     TELE2_API_KEY : {"", "key"},
                     TELEGRAM_BOT_TOKEN : {"", "token"}]
    /\ contacts = [u \in Users |-> NoContacts]
    /\ notifications = <<>>
    /\ pc = "idle"
    /\ request = NoRequest
    /\ index = 0
    /\ last_error = PyNone
    /\ trace = <<>>
    /\ outcome = NoOutcome
    /\ response = NoResponse
    /\ served = 0

\* views.py:108-114, models.py:139-151: a user stores a contact profile; the
\* save is refused when clean() raises.
CreateContacts(u, email, phone, chat) ==
    LET profile == [email |-> email, phone |-> phone, telegram_chat_id |-> chat]
    IN  /\ pc = "idle"
        /\ contacts[u] = NoContacts
        /\ clean(profile)
        /\ contacts' = [contacts EXCEPT ![u] = profile]
        /\ UNCHANGED <<settings, notifications, pc, request, index, last_error,
                       trace, outcome, response, served>>

\* views.py:52-60: a send request without subject or message is answered 400.
SendRejected(u, subject, message) ==
    /\ pc = "idle"
    /\ served < MaxRequests
    /\ ~TruthyStr(subject) \/ ~TruthyStr(message)
    /\ served' = served + 1
    /\ request' = [user |-> u, subject |-> subject, message |-> message, row |-> 0]
    /\ response' = [status |-> 400, error |-> <<"subject and message required">>]
    /\ index' = 0
    /\ last_error' = PyNone
    /\ trace' = <<>>
    /\ outcome' = NoOutcome
    /\ UNCHANGED <<settings, contacts, notifications, pc>>

\* views.py:52-64: a send request with subject and message creates its row.
SendAccepted(u, subject, message) ==
    /\ pc = "idle"
    /\ served < MaxRequests
    /\ TruthyStr(subject) /\ TruthyStr(message)
    /\ served' = served + 1
    /\ notifications' = Append(notifications, NewNotification(u, subject, message))
    /\ request' = [user |-> u, subject |-> subject, message |-> message,
                   row |-> Len(notifications) + 1]
    /\ response' = NoResponse
    /\ index' = 0
    /\ last_error' = PyNone
    /\ trace' = <<>>
    /\ outcome' = NoOutcome
    /\ pc' = "service"
    /\ UNCHANGED <<settings, contacts>>

\* views.py:67, services.py:21-34, 53-59: the service is constructed; with
\* contacts the dispatch loop starts, without them ValidationError is raised.
Construct ==
    /\ pc = "service"
    /\ IF ServiceInit(request.user) # NoExc
       THEN /\ outcome' = Raised(ServiceInit(request.user), "contacts not filled in")
            /\ pc' = "respond"
            /\ UNCHANGED index
       ELSE /\ outcome' = NoOutcome
            /\ index' = 1
            /\ pc' = "loop"
    /\ last_error' = PyNone
    /\ UNCHANGED <<settings, contacts, notifications, request, trace, response, served>>

\* services.py:61-67: the loop calls the next channel.
Attempt ==
    /\ pc = "loop"
    /\ index \in 1..Len(channels)
    /\ \E in \in Inputs(channels[index]) :
         LET r == CallChannel(channels[index], contacts[request.user],
                              request.subject, request.message, in)
             step == LoopStep(index, last_error, r)
         IN  /\ trace' = Append(trace, [channel |-> channels[index], input |-> in,
                                        result |-> r])
             /\ index' = step.index
             /\ last_error' = step.last_error
             /\ outcome' = step.outcome
             /\ pc' = IF step.index = 0 THEN "respond"
                      ELSE IF step.index > Len(channels) THEN "after" ELSE "loop"
    /\ UNCHANGED <<settings, contacts, notifications, request, response, served>>

\* services.py:69-73: the loop is exhausted.
Exhausted ==
    /\ pc = "after"
    /\ outcome' = AfterLoop(last_error)
    /\ pc' = "respond"
    /\ UNCHANGED <<settings, contacts, notifications, request, index, last_error,
                   trace, response, served>>

\* views.py:70-88: the flag is saved and the response is given.
Respond ==
    /\ pc = "respond"
    /\ notifications' = SaveIsSent(notifications, request.row, outcome)
    /\ response' = SendResponse(outcome)
    /\ pc' = "idle"
    /\ UNCHANGED <<settings, contacts, request, index, last_error, trace, outcome,
                   served>>

Next ==
    \/ \E u \in Users, e \in Emails, p \in Phones, c \in ChatIds :
         CreateContacts(u, e, p, c)
    \/ \E u \in Users, s \in Subjects, m \in Messages : SendRejected(u, s, m)
    \/ \E u \in Users, s \in Subjects, m \in Messages : SendAccepted(u, s, m)
    \/ Construct
    \/ Attempt
    \/ Exhausted
    \/ Respond

Spec == Init /\ [][Next]_vars

\* ------------------------------------------------------------ properties
\* The calls of the current dispatch, by channel name.
Called == [i \in 1..Len(trace) |-> trace[i].channel]

\* The dispatcher got a truthy value from call t: the channel reported
\* Delivered.
Reported(t) == Truthy(t.result.ret, t.result.payload)

\* send_notification has returned or raised.
CallEnded == outcome.kind \in {"returned", "Exception"}

\* The request that created a row has been answered.
Answered == pc = "idle" /\ request.row > 0

\* The credential of channel c is configured.
Configured(c) ==
    CASE c = "email" -> TruthyStr(settings.EMAIL_HOST_USER)
      [] c = "sms" -> TruthyStr(settings.TELE2_API_KEY)
      [] OTHER -> TruthyStr(settings.TELEGRAM_BOT_TOKEN)

\* The transport of call t was given an exception.
TransportRaised(t) ==
    IF t.channel = "email" THEN t.input.mail # "ok" ELSE t.input.post.exc # NoExc

\* The HTTP status the transport of call t answered with is a success:
\* 200 for the Tele2 API, 2xx for the Telegram API.
SuccessStatus(t) ==
    /\ t.channel # "email"
    /\ t.input.post.exc = NoExc
    /\ IF t.channel = "sms" THEN t.input.post.status = 200
       ELSE t.input.post.status \in 200..299

\* Call t is Unavailable: the channel's credential is not configured and
\* nothing was delivered.
Unavailable(t) == ~Configured(t.channel) /\ ~Reported(t)

\* Call t is Failed: the channel is configured and its transport raised or
\* answered with a status that is no success.
Failed(t) ==
    /\ Configured(t.channel)
    /\ \/ TransportRaised(t)
       \/ t.channel # "email" /\ ~SuccessStatus(t)

\* C1: the channels are called in the order Email, SMS, Telegram, Email
\* first; once a channel reports Delivered the call has returned True and no
\* later channel is called.
FallbackOrder ==
    /\ Len(trace) <= 3
    /\ \A i \in 1..Len(trace) : trace[i].channel = <<"email", "sms", "telegram">>[i]
    /\ \A i \in 1..Len(trace) :
         Reported(trace[i]) =>
            /\ i = Len(trace)
            /\ outcome = Returned(TRUE)
            /\ pc \in {"respond", "idle"}

\* C1 witness: all three channels configured, Email delivered, the call was
\* answered and Email is the only channel called.
FallbackOrderWitness ==
    /\ Answered
    /\ \A c \in {"email", "sms", "telegram"} : Configured(c)
    /\ Called = <<"email">>
    /\ trace[1].input.mail = "ok"
    /\ outcome = Returned(TRUE)

\* C2: a channel that does not deliver never ends the dispatch: the loop
\* stands at the next channel or has called it, and a call that ended without
\* a delivery has called all three; when Email fails and SMS delivers the call
\* returns True after exactly Email and SMS.
FallbackOnFailure ==
    /\ \A i \in 1..Len(trace) :
         ~Reported(trace[i]) =>
            \/ Len(trace) > i
            \/ i < 3 /\ pc = "loop" /\ index = i + 1 /\ outcome = NoOutcome
            \/ i = 3 /\ pc \in {"after", "respond", "idle"}
    /\ (CallEnded /\ outcome # Returned(TRUE)) => Called = <<"email", "sms", "telegram">>
    /\ (/\ Len(trace) >= 2
        /\ TransportRaised(trace[1])
        /\ Configured("sms") /\ SuccessStatus(trace[2]))
       => /\ Called = <<"email", "sms">>
          /\ outcome = Returned(TRUE)

\* C2 witness: Email failed, SMS delivered, the request was answered.
FallbackOnFailureWitness ==
    /\ Answered
    /\ Called = <<"email", "sms">>
    /\ TransportRaised(trace[1])
    /\ SuccessStatus(trace[2])
    /\ outcome = Returned(TRUE)
    /\ response.status = 200

\* The reason of a Failed call t: the text of the transport's exception, or
\* for a response that is no success the error it stands for.
FailReason(t) ==
    IF TransportRaised(t)
    THEN (IF t.channel = "email" THEN t.input.mail ELSE t.input.post.exc)
    ELSE IF t.channel = "telegram" THEN "HTTPError"
    ELSE IF t.input.post.body.parses /\ "message" \in t.input.post.body.keys
    THEN t.input.post.body.message
    ELSE "Unknown error"

\* The last Failed call of the dispatch (0 when there is none).
LastFailed ==
    IF \E i \in 1..Len(trace) : Failed(trace[i])
    THEN CHOOSE i \in 1..Len(trace) :
            /\ Failed(trace[i])
            /\ \A j \in 1..Len(trace) : Failed(trace[j]) => j <= i
    ELSE 0

\* C3: when the call ended, no channel delivered and some channel Failed,
\* send_notification raised, and the error carries the reason of the last
\* Failed channel.
DeliveryFailedCarriesLastReason ==
    (/\ CallEnded
     /\ \A i \in 1..Len(trace) : ~Reported(trace[i])
     /\ LastFailed > 0)
    => /\ outcome.kind = "Exception"
       /\ outcome.reason = FailReason(trace[LastFailed])

MissingProfile ==
    /\ (/\ pc \in {"loop", "after", "respond"}
        /\ contacts[request.user] = NoContacts)
       => /\ outcome.kind = "ValidationError"
          /\ pc = "respond"
          /\ trace = <<>>
    /\ outcome.kind = "ValidationError"
       => /\ trace = <<>>
          /\ index = 0
          /\ pc # "idle" => contacts[request.user] = NoContacts
    /\ trace # <<>> => outcome.kind # "ValidationError"

\* C5 witness: a request of a user without profile was answered; the service
\* raised ValidationError and no channel was called.
MissingProfileWitness ==
    /\ Answered
    /\ contacts[request.user] = NoContacts
    /\ outcome.kind = "ValidationError"
    /\ trace = <<>>

\* The reason call t printed (NoExc when it printed nothing).
LoggedReason(t) ==
    IF t.result.log = <<>> THEN NoExc ELSE t.result.log[Len(t.result.log)][2]

\* C6: an SMS call with a configured key is decided by the HTTP response:
\* status 200 is Delivered; another status is Failed with the body's message
\* field as reason, "Unknown error" when the field is absent or the body is
\* unparseable; an exception of the transport is Failed with its text.
SmsStatusMapping ==
    \A i \in 1..Len(trace) :
       (trace[i].channel = "sms" /\ Configured("sms")) =>
          IF SuccessStatus(trace[i])
          THEN Reported(trace[i])
          ELSE /\ ~Reported(trace[i])
               /\ LoggedReason(trace[i]) = FailReason(trace[i])

\* C7: the answer of the send endpoint: 200 when a channel delivered, 400
\* when the contact profile is missing, 500 with the reason of the failing
\* channel in its error text when channels Failed and none delivered.
SendEndpointMapping ==
    Answered =>
       /\ (\E i \in 1..Len(trace) : Reported(trace[i])) => response.status = 200
       /\ outcome.kind = "ValidationError" => response.status = 400
       /\ (/\ \A i \in 1..Len(trace) : ~Reported(trace[i])
           /\ LastFailed > 0)
          => /\ response.status = 500
             /\ \E k \in 1..Len(response.error) :
                   response.error[k] = FailReason(trace[LastFailed])

\* C8: a Telegram call with a configured token that gets a 2xx response is
\* Delivered whatever the payload, and the call returns True; with another
\* status it is not Delivered.
TelegramSuccessIgnoresPayload ==
    \A i \in 1..Len(trace) :
       (/\ trace[i].channel = "telegram"
        /\ Configured("telegram")
        /\ trace[i].input.post.exc = NoExc)
       => IF SuccessStatus(trace[i])
          THEN Reported(trace[i]) /\ outcome = Returned(TRUE)
          ELSE ~Reported(trace[i]) /\ outcome # Returned(TRUE)

\* The transport calls made for channel c in the current dispatch.
TransportCalls(c) ==
    {i \in 1..Len(trace) : trace[i].channel = c /\ trace[i].result.io # <<>>}

\* C9: no channel is called twice in one dispatch, no call issues more than
\* one transport request, and when the call ended without a delivery each of
\* the three channels has been called exactly once.
NoRetries ==
    /\ \A i, j \in 1..Len(trace) : trace[i].channel = trace[j].channel => i = j
    /\ \A i \in 1..Len(trace) : Len(trace[i].result.io) <= 1
    /\ (CallEnded /\ outcome # Returned(TRUE)) =>
          \A c \in {"email", "sms", "telegram"} :
             Cardinality({i \in 1..Len(trace) : trace[i].channel = c}) = 1

\* C9 witness: the three channels are configured, each was called and Failed,
\* each made its one transport request, and the call ended.
NoRetriesWitness ==
    /\ CallEnded
    /\ Len(trace) = 3
    /\ \A i \in 1..3 : Failed(trace[i]) /\ Len(trace[i].result.io) = 1
    /\ outcome = Returned(FALSE)

\* C10: without TELE2_API_KEY the SMS adapter returns False and issues no
\* request, without TELEGRAM_BOT_TOKEN the Telegram adapter returns False and
\* issues no request; the dispatch goes on: to Telegram after SMS, to the end
\* of the loop after Telegram.
UnavailableWithoutRequest ==
    \A i \in 1..Len(trace) :
       (trace[i].channel \in {"sms", "telegram"} /\ ~Configured(trace[i].channel))
       => /\ trace[i].result.ret = PyFalse
          /\ trace[i].result.exc = NoExc
          /\ trace[i].result.io = <<>>
          /\ TransportCalls(trace[i].channel) = {}
          /\ IF trace[i].channel = "sms"
             THEN \/ pc = "loop" /\ index = i + 1
                  \/ Len(trace) > i /\ trace[i + 1].channel = "telegram"
             ELSE pc \in {"after", "respond", "idle"} /\ outcome # Returned(TRUE)

\* C10 witness: neither key nor token is configured, SMS and Telegram were
\* both called and no HTTP request was issued.
UnavailableWithoutRequestWitness ==
    /\ CallEnded
    /\ ~Configured("sms") /\ ~Configured("telegram")
    /\ Called = <<"email", "sms", "telegram">>
    /\ TransportCalls("sms") = {} /\ TransportCalls("telegram") = {}
    /\ trace[2].result.ret = PyFalse /\ trace[3].result.ret = PyFalse

\* The record of the current request is stored and some channel of its
\* dispatch reported Delivered.
DispatchDelivered == \E i \in 1..Len(trace) : Reported(trace[i])

\* What holds of the record of the current send request in every state: an
\* accepted request has its record, the last of the table, from the moment
\* it is accepted, so before the profile is resolved; the flag is False
\* until the answer, and in the answered request True exactly when a channel
\* reported Delivered; a rejected request has no record, is answered 400 and
\* called no channel.
RecordOfRequest ==
    /\ Len(notifications) <= served
    /\ request.row > 0 =>
          /\ request.row = Len(notifications)
          /\ notifications[request.row].user = request.user
          /\ pc # "idle" => ~notifications[request.row].is_sent
          /\ Answered => (notifications[request.row].is_sent <=> DispatchDelivered)
          /\ (Answered /\ outcome # Returned(TRUE))
                => ~notifications[request.row].is_sent
    /\ outcome.kind = "ValidationError" => request.row > 0
    /\ (served > 0 /\ request.row = 0) =>
          /\ pc = "idle"
          /\ ~TruthyStr(request.subject) \/ ~TruthyStr(request.message)
          /\ response.status = 400
          /\ trace = <<>>

\* What every step does to the table: the records of earlier requests are
\* never changed; a record is added exactly by the step that accepts a
\* request with subject and message, which leaves the service still to be
\* constructed; the step that rejects a request adds none.
RecordsStep ==
    /\ Len(notifications') >= Len(notifications)
    /\ \A k \in 1..Len(notifications) :
          k # request'.row => notifications'[k] = notifications[k]
    /\ Len(notifications') > Len(notifications) <=>
          /\ served' = served + 1
          /\ TruthyStr(request'.subject) /\ TruthyStr(request'.message)
    /\ Len(notifications') > Len(notifications) =>
          /\ Len(notifications') = Len(notifications) + 1
          /\ pc' = "service"
          /\ ~notifications'[Len(notifications')].is_sent
          /\ outcome' = NoOutcome /\ trace' = <<>>
    /\ (served' = served + 1 /\ Len(notifications') = Len(notifications)) =>
          /\ response'.status = 400
          /\ trace' = <<>>
          /\ pc' = "idle"

\* C11: after any sequence of send requests a record has is_sent true iff
\* the dispatch of its request ended with a channel reporting Delivered: the
\* record is stored before the profile is resolved with the flag False, only
\* the answer of its own request sets the flag, to whether a channel
\* delivered, and later requests leave it alone; a request without subject
\* or message is answered 400, stores no record and calls no channel.
IsSentIffDelivered == []RecordOfRequest /\ [][RecordsStep]_vars

\* C11 witness: two requests were answered; the first was delivered and its
\* record is flagged, the second ended with the missing profile and its
\* record is stored with the flag False.
IsSentIffDeliveredWitness ==
    /\ Answered
    /\ Len(notifications) = 2
    /\ notifications[1].is_sent
    /\ ~notifications[2].is_sent
    /\ outcome.kind = "ValidationError"
    /\ trace = <<>>

====
